---- MODULE Spec2Model ----
(***************************************************************************)
(* Funding state machine of the crowd-funding server: the Express route    *)
(* handlers of server/routes.ts (src/unnamed/part_007) over the storage    *)
(* layer of server/storage.ts (src/unnamed/part_004) and the tables of     *)
(* shared/schema.ts (src/unnamed/part_000).                                *)
(*                                                                         *)
(* A handler is an async function: it runs from one awaited storage call   *)
(* to the next, and other handlers may run in between.  Each action below  *)
(* is one such run: the continuation after an await together with the      *)
(* storage call it issues next.  What a run answers (res.status, message)  *)
(* is an operator of the handler's locals, ...Response; status 0 stands    *)
(* for "no response yet, the handler goes on".  Spec lets handlers         *)
(* overlap; SpecSeq starts a handler only when no other one is in flight   *)
(* (non-overlapping calls).                                                *)
(*                                                                         *)
(* Text columns (amounts) are sequences of one-character strings;          *)
(* JavaScript numbers are records [nan, v]: NaN, or the whole number v.    *)
(* Every amount of Spec and SpecSeq is a whole number, for which IEEE      *)
(* double addition and subtraction are exact.  SpecFaulty is SpecSeq over  *)
(* a storage whose write of currentAmount may throw; SpecDecimal funds a   *)
(* project with amounts that have a decimal place, in binary64 arithmetic. *)
(* SpecUsers is the logins (storage.upsertUser) next to project creation;  *)
(* SpecDeadline creates projects with the deadline in every form a body    *)
(* may carry; SpecRetry and SpecAnyRefund are approvals of refund requests *)
(* over a storage whose write of the approved flag may throw, and of       *)
(* refund requests of any amount.                                          *)
(***************************************************************************)
EXTENDS Integers, Sequences, FiniteSets, TLC

VARIABLES
    projects,        \* table projects: row i has id i (AUTOINCREMENT, never deleted)
    transactions,    \* table transactions
    refundRequests,  \* table refund_requests
    now,             \* wall clock, whole seconds
    handlers,        \* the in-flight request handlers, one per slot
    withdrawCount,   \* history: per project, the withdraw calls answered 200
    deductCount,     \* history: per refund request, the deductions written for it
    users,           \* table users, in rowid order
    upsertError,     \* history: the constraint the last upsert violated, or ""
    deadlineBody     \* history: per project, req.body.deadline of its creation

vars == <<projects, transactions, refundRequests, now, handlers,
          withdrawCount, deductCount, users, upsertError,
          deadlineBody>>

-----------------------------------------------------------------------------
(* Bounds of the model *)

MaxProjects == 1

MaxTransactions == 2

MaxRefunds == 1

MaxTime == 2

MaxDecimalFunds == 3

\* Request handlers that can be in flight at once
Slots == {"h1", "h2"}

\* req.user.claims.sub of the authenticated caller
Users == {"alice", "bob"}

\* The users who create projects, and those who fund them and ask for
\* refunds
Creators == {"alice"}

Donors == {"bob"}

\* body.amount of a fund call
FundAmounts == {<<"1">>, <<"2">>, <<"0">>, <<"-", "1">>, <<"a", "b", "c">>,
                <<"1", "x">>}

\* body.amount of a fund call with a decimal place
DecimalAmounts ==
    {<<"0", ".", "1">>, <<"0", ".", "2">>, <<"0", ".", "3">>,
     <<"0", ".", "4">>, <<"0", ".", "6">>}

\* body.transactionType of a fund call
TransactionTypes == {"demo", "crypto"}

\* body.amount of a refund request
RefundAmounts == {<<"2">>, <<"a", "b", "c">>}

\* body.transactionId of a refund request: 0 when absent
RefundTransactionIds == {0, 1}

\* body.goalAmount of a new project
GoalAmounts == {<<"3">>}

\* body.deadline of a new project, in unix seconds
Deadlines == {0, 1}

\* body.currentAmount, body.isActive and body.withdrawn of a new project:
\* absent (<<>>), or supplied
ProjectExtras ==
    {[currentAmount |-> <<>>, isActive |-> <<>>, withdrawn |-> <<>>],
     [currentAmount |-> << <<"5">> >>, isActive |-> <<FALSE>>,
      withdrawn |-> <<TRUE>>]}

ProjectIds == 1..MaxProjects

RefundIds == 1..MaxRefunds

-----------------------------------------------------------------------------
(* JavaScript numbers and their text *)

NaN == [nan |-> TRUE, v |-> 0]

Num(n) == [nan |-> FALSE, v |-> n]

isNaN(x) == x.nan

Digits == <<"0", "1", "2", "3", "4", "5", "6", "7", "8", "9">>

IsDigit(c) == \E i \in 1..10 : Digits[i] = c

DigitValue(c) == (CHOOSE i \in 1..10 : Digits[i] = c) - 1

\* The longest prefix of s made of decimal digits.
RECURSIVE DigitPrefix(_)
DigitPrefix(s) ==
    IF s = <<>> \/ ~IsDigit(Head(s)) THEN <<>>
    ELSE <<Head(s)>> \o DigitPrefix(Tail(s))

RECURSIVE DigitsValue(_, _)
DigitsValue(s, acc) ==
    IF s = <<>> THEN acc ELSE DigitsValue(Tail(s), 10 * acc + DigitValue(Head(s)))

\* parseFloat: an optional sign, then the longest numeric prefix; NaN when
\* there is none.  (No text of the model holds a "." or an exponent.)
parseFloat(s) ==
    LET neg  == s /= <<>> /\ Head(s) = "-"
        body == IF s /= <<>> /\ Head(s) \in {"-", "+"} THEN Tail(s) ELSE s
        ds   == DigitPrefix(body)
    IN  IF ds = <<>> THEN NaN
        ELSE IF neg THEN Num(0 - DigitsValue(ds, 0)) ELSE Num(DigitsValue(ds, 0))

RECURSIVE NatToString(_)
NatToString(n) ==
    IF n < 10 THEN <<Digits[n + 1]>>
    ELSE NatToString(n \div 10) \o <<Digits[(n % 10) + 1]>>

\* Number.prototype.toString
toString(x) ==
    IF isNaN(x) THEN <<"N", "a", "N">>
    ELSE IF x.v < 0 THEN <<"-">> \o NatToString(0 - x.v)
    ELSE NatToString(x.v)

jsAdd(x, y) == IF isNaN(x) \/ isNaN(y) THEN NaN ELSE Num(x.v + y.v)

jsSub(x, y) == IF isNaN(x) \/ isNaN(y) THEN NaN ELSE Num(x.v - y.v)

\* Math.max(0, x): NaN when x is NaN
jsMax0(x) == IF isNaN(x) THEN NaN ELSE IF x.v < 0 THEN Num(0) ELSE x

\* Comparisons: false as soon as one side is NaN
jsLt(x, y) == ~isNaN(x) /\ ~isNaN(y) /\ x.v < y.v

jsLe(x, y) == ~isNaN(x) /\ ~isNaN(y) /\ x.v <= y.v

jsGe(x, y) == ~isNaN(x) /\ ~isNaN(y) /\ x.v >= y.v

\* s || '0'
OrZero(s) == IF s = <<>> THEN <<"0">> ELSE s

-----------------------------------------------------------------------------
(* Storage layer: DatabaseStorage *)

\* const [project] = await db.select()...where(eq(projects.id, id))
getProject(id) ==
    IF id \in 1..Len(projects) THEN <<projects[id]>> ELSE <<>>

\* column.default(value): the value given for the column, else its default
OrDefault(given, default) == IF given = <<>> THEN default ELSE given[1]

\* INSERT INTO projects: id by AUTOINCREMENT, the columns data does not
\* give by their default
createProject(data) ==
    Append(projects,
           [id            |-> Len(projects) + 1,
            creatorId     |-> data.creatorId,
            goalAmount    |-> data.goalAmount,
            currentAmount |-> OrDefault(data.currentAmount, <<"0">>),
            deadline      |-> data.deadline,
            isActive      |-> OrDefault(data.isActive, TRUE),
            withdrawn     |-> OrDefault(data.withdrawn, FALSE)])

\* Mutant: the update writes the flag's default along with the amount.
updateProjectAmountResetting(id, amount) ==
    [i \in 1..Len(projects) |->
        IF i = id THEN [projects[i] EXCEPT !.currentAmount = amount,
                                           !.withdrawn = FALSE]
        ELSE projects[i]]

\* UPDATE projects SET current_amount = amount WHERE id = id
updateProjectAmount(id, amount) ==
    [i \in 1..Len(projects) |->
        IF i = id THEN [projects[i] EXCEPT !.currentAmount = amount]
        ELSE projects[i]]

\* UPDATE projects SET withdrawn = true WHERE id = id
markProjectWithdrawn(id) ==
    [i \in 1..Len(projects) |->
        IF i = id THEN [projects[i] EXCEPT !.withdrawn = TRUE]
        ELSE projects[i]]

\* INSERT INTO transactions
createTransaction(data) ==
    Append(transactions,
           [id              |-> Len(transactions) + 1,
            projectId       |-> data.projectId,
            donorId         |-> data.donorId,
            amount          |-> data.amount,
            transactionType |-> data.transactionType])

\* FOREIGN KEY (transaction_id) REFERENCES transactions(id), NULL allowed
transactionIdOk(txId) == txId = 0 \/ txId \in 1..Len(transactions)

\* Mutant: the requester is recorded as the creator.
createRefundRequestOfDonor(data) ==
    Append(refundRequests,
           [id            |-> Len(refundRequests) + 1,
            projectId     |-> data.projectId,
            transactionId |-> data.transactionId,
            donorId       |-> data.donorId,
            creatorId     |-> data.donorId,
            amount        |-> data.amount,
            approved      |-> FALSE])

\* INSERT INTO refund_requests: approved by default false
createRefundRequest(data) ==
    Append(refundRequests,
           [id            |-> Len(refundRequests) + 1,
            projectId     |-> data.projectId,
            transactionId |-> data.transactionId,
            donorId       |-> data.donorId,
            creatorId     |-> data.creatorId,
            amount        |-> data.amount,
            approved      |-> FALSE])

\* SELECT * FROM refund_requests WHERE creator_id = creatorId
getRefundRequestsByCreator(creatorId) ==
    SelectSeq(refundRequests, LAMBDA r : r.creatorId = creatorId)

\* Mutant: the update flips the flag.
processRefundRequestFlipping(id, approved) ==
    [i \in 1..Len(refundRequests) |->
        IF i = id THEN [refundRequests[i] EXCEPT !.approved = ~@]
        ELSE refundRequests[i]]

\* UPDATE refund_requests SET approved = approved WHERE id = id
processRefundRequest(id, approved) ==
    [i \in 1..Len(refundRequests) |->
        IF i = id THEN [refundRequests[i] EXCEPT !.approved = approved]
        ELSE refundRequests[i]]

-----------------------------------------------------------------------------
(* Request handlers *)

Idle ==
    [op |-> "idle", pc |-> "idle", caller |-> "", id |-> 0, amount |-> <<>>,
     transactionType |-> "", transactionId |-> 0, approved |-> FALSE,
     project |-> <<>>, refund |-> <<>>]

InFlight(op) == Cardinality({s \in Slots : handlers[s].op = op})

Res(status, message) == [status |-> status, message |-> message]

GoOn == Res(0, "")

\* A handler that has sent its response
Finish(s) == handlers' = [handlers EXCEPT ![s] = Idle]

\* The ids (claims.sub) and e-mail addresses an upsert may carry; NoEmail is
\* a claim set without an e-mail
UserIds == {"alice", "bob", "carol"}

NoEmail == ""

Emails == {"alice@x", "bob@x", NoEmail}

\* storage.getUser: the rows of the id, as a sequence of at most one row
getUser(id) == SelectSeq(users, LAMBDA u : u.id = id)

\* storage.getUserByEmail
getUserByEmail(email) == SelectSeq(users, LAMBDA u : u.email = email)

\* A row of another table holds the id in a column that REFERENCES users(id)
isReferenced(id) ==
    \/ \E p \in 1..Len(projects) : projects[p].creatorId = id
    \/ \E t \in 1..Len(transactions) : transactions[t].donorId = id
    \/ \E r \in 1..Len(refundRequests) :
          refundRequests[r].donorId = id \/ refundRequests[r].creatorId = id

\* The constraint of the users table that storage.upsertUser's statement
\* violates, "" if none: the update by id sets the e-mail (UNIQUE), the
\* update by e-mail sets the id (PRIMARY KEY, referenced by the other
\* tables under PRAGMA foreign_keys = ON, with no ON UPDATE action)
upsertUserError(userData) ==
    IF getUser(userData.id) /= <<>>
    THEN IF /\ userData.email /= NoEmail
            /\ \E u \in 1..Len(users) :
                  users[u].email = userData.email /\ users[u].id /= userData.id
         THEN "UNIQUE constraint failed: users.email"
         ELSE ""
    ELSE IF userData.email /= NoEmail /\ getUserByEmail(userData.email) /= <<>>
    THEN IF isReferenced(getUserByEmail(userData.email)[1].id)
         THEN "FOREIGN KEY constraint failed"
         ELSE ""
    ELSE ""

\* storage.upsertUser, when its statement violates no constraint: update
\* the row of the id, else the row of the e-mail, else insert
upsertUser(userData) ==
    IF getUser(userData.id) /= <<>>
    THEN [u \in 1..Len(users) |->
            IF users[u].id = userData.id
            THEN [id    |-> userData.id,
                  email |-> IF userData.email = NoEmail THEN users[u].email
                            ELSE userData.email]
            ELSE users[u]]
    ELSE IF userData.email /= NoEmail /\ getUserByEmail(userData.email) /= <<>>
    THEN [u \in 1..Len(users) |->
            IF users[u].email = userData.email
            THEN [id |-> userData.id, email |-> userData.email]
            ELSE users[u]]
    ELSE Append(users, [id |-> userData.id, email |-> userData.email])

\* History counters stop at 2: "more than once"
Bump(n) == IF n < 2 THEN n + 1 ELSE 2

Init ==
    /\ projects = <<>>
    /\ transactions = <<>>
    /\ refundRequests = <<>>
    /\ now = 0
    /\ handlers = [s \in Slots |-> Idle]
    /\ withdrawCount = [p \in ProjectIds |-> 0]
    /\ deductCount = [r \in RefundIds |-> 0]
    /\ users = <<[id |-> "alice", email |-> "alice@x"],
                 [id |-> "bob", email |-> "bob@x"]>>
    /\ upsertError = ""
    /\ deadlineBody = [p \in ProjectIds |-> [type |-> "undefined", text |-> <<>>]]

\* Time passes.
Tick ==
    /\ now < MaxTime
    /\ now' = now + 1
    /\ UNCHANGED <<users, upsertError, deadlineBody>>
    /\ UNCHANGED <<projects, transactions, refundRequests, handlers,
                   withdrawCount, deductCount>>

\* insertProjectSchema.parse: goalAmount a non-empty string, deadline (here
\* already a number of unix seconds) a positive integer
CreateProjectResponse(goalAmount, deadline) ==
    IF Len(goalAmount) >= 1 /\ deadline > 0 THEN Res(201, "")
    ELSE Res(400, "Validation error")

\* Mutant: the parse keeps the keys the schema omits.
insertProjectSchemaPassthrough(body) == body

\* insertProjectSchema.parse of a valid body: a zod object drops the keys
\* it does not declare, among them those of .omit({...})
insertProjectSchema(body) ==
    [body EXCEPT !.currentAmount = <<>>, !.isActive = <<>>, !.withdrawn = <<>>]

\* POST /api/projects
CreateProject(s, caller, goalAmount, deadline, extras) ==
    /\ handlers[s].op = "idle"
    /\ Len(projects) < MaxProjects
    /\ CreateProjectResponse(goalAmount, deadline).status = 201
    /\ getUser(caller) /= <<>>
    /\ projects' = createProject(insertProjectSchema(
                       [creatorId     |-> caller,
                        goalAmount    |-> goalAmount,
                        deadline      |-> deadline,
                        currentAmount |-> extras.currentAmount,
                        isActive      |-> extras.isActive,
                        withdrawn     |-> extras.withdrawn]))
    /\ deadlineBody' = [deadlineBody EXCEPT ![Len(projects) + 1] =
                           [type |-> "number", text |-> NatToString(deadline)]]
    /\ UNCHANGED <<users, upsertError, transactions, refundRequests, now,
                   handlers, withdrawCount, deductCount>>

\* upsertUser(claims) of a login (mock-login, signup, the OIDC callback): a
\* statement that violates a constraint throws and writes nothing
UpsertUser(id, email) ==
    /\ users' = IF upsertUserError([id |-> id, email |-> email]) = ""
                THEN upsertUser([id |-> id, email |-> email])
                ELSE users
    /\ upsertError' = upsertUserError([id |-> id, email |-> email])
    /\ UNCHANGED <<projects, transactions, refundRequests, now, handlers,
                   withdrawCount, deductCount, deadlineBody>>

\* POST /api/projects/:id/fund: the checks of the request body
FundValidation(amount, transactionType) ==
    IF transactionType \notin {"real", "demo"}
    THEN Res(400, "Invalid transaction type")
    ELSE IF isNaN(parseFloat(amount)) \/ jsLe(parseFloat(amount), Num(0))
    THEN Res(400, "Invalid amount")
    ELSE GoOn

\* Mutant: the deadline is exclusive.
FundResponseExclusive(h) ==
    IF h.project = <<>> THEN Res(404, "Project not found")
    ELSE IF now >= h.project[1].deadline
    THEN Res(400, "Project deadline has passed")
    ELSE IF ~h.project[1].isActive
    THEN Res(400, "Project is not active")
    ELSE IF jsGe(parseFloat(h.project[1].currentAmount),
                 parseFloat(h.project[1].goalAmount))
    THEN Res(400, "Funding goal has been reached. No more transactions accepted.")
    ELSE GoOn

\* ... the checks on the project as it was read
FundResponse(h) ==
    IF h.project = <<>> THEN Res(404, "Project not found")
    ELSE IF now > h.project[1].deadline
    THEN Res(400, "Project deadline has passed")
    ELSE IF ~h.project[1].isActive
    THEN Res(400, "Project is not active")
    ELSE IF jsGe(parseFloat(h.project[1].currentAmount),
                 parseFloat(h.project[1].goalAmount))
    THEN Res(400, "Funding goal has been reached. No more transactions accepted.")
    ELSE GoOn

\* The checks of the earlier variant of the fund handler: none on the goal
FundResponseEarlier(h) ==
    IF h.project = <<>> THEN Res(404, "Project not found")
    ELSE IF now > h.project[1].deadline
    THEN Res(400, "Project deadline has passed")
    ELSE IF ~h.project[1].isActive
    THEN Res(400, "Project is not active")
    ELSE GoOn

\* ... up to the await of getProject; a request that fails the checks is
\* answered at once and leaves no trace.  (The ledger of the model is full
\* at MaxTransactions rows: from then on only the calls start that the
\* checks on the project will turn away.)
FundBegin(s, caller, projectId, amount, transactionType) ==
    LET h == [Idle EXCEPT !.op = "fund", !.pc = "gotProject",
                          !.caller = caller, !.id = projectId,
                          !.amount = amount,
                          !.transactionType = transactionType,
                          !.project = getProject(projectId)]
    IN  /\ handlers[s].op = "idle"
        /\ \/ Len(transactions) + InFlight("fund") < MaxTransactions
           \/ FundResponse(h) /= GoOn
        /\ FundValidation(amount, transactionType) = GoOn
        /\ handlers' = [handlers EXCEPT ![s] = h]
        /\ UNCHANGED <<users, upsertError, deadlineBody>>
        /\ UNCHANGED <<projects, transactions, refundRequests, now,
                       withdrawCount, deductCount>>

\* ... from the project read to the await of createTransaction
FundCreate(s) ==
    LET h == handlers[s] IN
    /\ h.op = "fund" /\ h.pc = "gotProject"
    /\ IF FundResponse(h) = GoOn
       THEN /\ transactions' = createTransaction(
                   [projectId       |-> h.id,
                    donorId         |-> h.caller,
                    amount          |-> h.amount,
                    transactionType |-> h.transactionType])
            /\ handlers' = [handlers EXCEPT ![s].pc = "createdTransaction"]
       ELSE /\ Finish(s)
            /\ UNCHANGED transactions
    /\ UNCHANGED <<users, upsertError, deadlineBody>>
    /\ UNCHANGED <<projects, refundRequests, now, withdrawCount, deductCount>>

\* (currentAmount + amountNum).toString(), of the project as it was read
fundedAmount(project, amount) ==
    toString(jsAdd(parseFloat(project.currentAmount), parseFloat(amount)))

\* ... the write of currentAmount, and the 201
FundUpdate(s) ==
    LET h == handlers[s] IN
    /\ h.op = "fund" /\ h.pc = "createdTransaction"
    /\ projects' = updateProjectAmount(h.id, fundedAmount(h.project[1], h.amount))
    /\ Finish(s)
    /\ UNCHANGED <<users, upsertError, deadlineBody>>
    /\ UNCHANGED <<transactions, refundRequests, now, withdrawCount, deductCount>>

\* POST /api/projects/:id/withdraw, up to the await of getProject
WithdrawBegin(s, caller, projectId) ==
    /\ handlers[s].op = "idle"
    /\ handlers' = [handlers EXCEPT ![s] =
           [Idle EXCEPT !.op = "withdraw", !.pc = "gotProject",
                        !.caller = caller, !.id = projectId,
                        !.project = getProject(projectId)]]
    /\ UNCHANGED <<users, upsertError, deadlineBody>>
    /\ UNCHANGED <<projects, transactions, refundRequests, now,
                   withdrawCount, deductCount>>

\* Mutant: no check of project.withdrawn.
WithdrawResponseUnlatched(h) ==
    IF h.project = <<>> THEN Res(404, "Project not found")
    ELSE IF h.project[1].creatorId /= h.caller
    THEN Res(403, "Only the project creator can withdraw funds")
    ELSE IF jsLt(parseFloat(h.project[1].currentAmount),
                 parseFloat(h.project[1].goalAmount))
    THEN Res(400, "Funding goal not met")
    ELSE IF now > h.project[1].deadline
    THEN Res(400, "Cannot withdraw after deadline")
    ELSE Res(200, "Funds withdrawn successfully")

\* ... the checks on the project as it was read
WithdrawResponse(h) ==
    IF h.project = <<>> THEN Res(404, "Project not found")
    ELSE IF h.project[1].creatorId /= h.caller
    THEN Res(403, "Only the project creator can withdraw funds")
    ELSE IF h.project[1].withdrawn
    THEN Res(400, "Funds already withdrawn")
    ELSE IF jsLt(parseFloat(h.project[1].currentAmount),
                 parseFloat(h.project[1].goalAmount))
    THEN Res(400, "Funding goal not met")
    ELSE IF now > h.project[1].deadline
    THEN Res(400, "Cannot withdraw after deadline")
    ELSE Res(200, "Funds withdrawn successfully")

\* ... the checks, markProjectWithdrawn and the response
WithdrawMark(s) ==
    LET h == handlers[s] IN
    /\ h.op = "withdraw" /\ h.pc = "gotProject"
    /\ IF WithdrawResponse(h).status = 200
       THEN /\ projects' = markProjectWithdrawn(h.id)
            /\ withdrawCount' = [withdrawCount EXCEPT ![h.id] = Bump(@)]
       ELSE UNCHANGED <<projects, withdrawCount>>
    /\ Finish(s)
    /\ UNCHANGED <<users, upsertError, deadlineBody>>
    /\ UNCHANGED <<transactions, refundRequests, now, deductCount>>

\* catch (error): what the fund handler answers when a storage call throws
FundFailureResponse == Res(500, "Failed to create transaction")

\* ... updateProjectAmount throws (the database is busy, the disk is full):
\* the catch block answers 500, and the handler has undone nothing
FundUpdateThrows(s) ==
    LET h == handlers[s] IN
    /\ h.op = "fund" /\ h.pc = "createdTransaction"
    /\ FundFailureResponse.status = 500
    /\ Finish(s)
    /\ UNCHANGED <<users, upsertError, deadlineBody>>
    /\ UNCHANGED <<projects, transactions, refundRequests, now, withdrawCount,
                   deductCount>>

\* POST /api/refund-requests, up to the await of getProject
RefundRequestBegin(s, caller, projectId, transactionId, amount) ==
    /\ handlers[s].op = "idle"
    /\ Len(refundRequests) + InFlight("refundRequest") < MaxRefunds
    /\ handlers' = [handlers EXCEPT ![s] =
           [Idle EXCEPT !.op = "refundRequest", !.pc = "gotProject",
                        !.caller = caller, !.id = projectId,
                        !.transactionId = transactionId, !.amount = amount,
                        !.project = getProject(projectId)]]
    /\ UNCHANGED <<users, upsertError, deadlineBody>>
    /\ UNCHANGED <<projects, transactions, refundRequests, now,
                   withdrawCount, deductCount>>

\* ... a transactionId no transaction has makes the INSERT throw, which the
\* handler answers with 500
RefundRequestResponse(h) ==
    IF h.project = <<>> THEN Res(404, "Project not found")
    ELSE IF ~transactionIdOk(h.transactionId)
    THEN Res(500, "Failed to create refund request")
    ELSE Res(201, "")

\* ... createRefundRequest and the response
RefundRequestCreate(s) ==
    LET h == handlers[s] IN
    /\ h.op = "refundRequest" /\ h.pc = "gotProject"
    /\ IF RefundRequestResponse(h).status = 201
       THEN refundRequests' = createRefundRequest(
                   [projectId     |-> h.id,
                    transactionId |-> h.transactionId,
                    donorId       |-> h.caller,
                    creatorId     |-> h.project[1].creatorId,
                    amount        |-> h.amount])
       ELSE UNCHANGED refundRequests
    /\ Finish(s)
    /\ UNCHANGED <<users, upsertError, deadlineBody>>
    /\ UNCHANGED <<projects, transactions, now, withdrawCount, deductCount>>

\* list.filter(r => r.id === refundId), destructured to its first element
refundOfCaller(caller, refundId) ==
    LET list == SelectSeq(getRefundRequestsByCreator(caller),
                          LAMBDA r : r.id = refundId)
    IN  IF list = <<>> THEN <<>> ELSE <<list[1]>>

\* POST /api/refund-requests/:id/process answers 200 whenever no storage
\* call throws
ProcessResponse(h) == Res(200, "Refund request processed successfully")

\* ... approved: up to the await of getRefundRequestsByCreator;
\* not approved: straight to processRefundRequest and the response
ProcessBegin(s, caller, refundId, approved) ==
    /\ handlers[s].op = "idle"
    /\ IF approved
       THEN /\ handlers' = [handlers EXCEPT ![s] =
                   [Idle EXCEPT !.op = "process", !.pc = "gotRefund",
                                !.caller = caller, !.id = refundId,
                                !.approved = approved,
                                !.refund = refundOfCaller(caller, refundId)]]
            /\ UNCHANGED refundRequests
       ELSE /\ refundRequests' = processRefundRequest(refundId, approved)
            /\ UNCHANGED handlers
    /\ UNCHANGED <<users, upsertError, deadlineBody>>
    /\ UNCHANGED <<projects, transactions, now, withdrawCount, deductCount>>

\* Mutant: no check of refund.approved.
mustDeductAgain(h) == h.refund /= <<>>

\* if (refund && !refund.approved)
mustDeduct(h) == h.refund /= <<>> /\ ~h.refund[1].approved

\* ... the refund to deduct: the await of getProject; otherwise on to
\* processRefundRequest and the response
ProcessGetProject(s) ==
    LET h == handlers[s] IN
    /\ h.op = "process" /\ h.pc = "gotRefund"
    /\ IF mustDeduct(h)
       THEN /\ handlers' = [handlers EXCEPT ![s].pc = "gotProject",
                                            ![s].project = getProject(h.refund[1].projectId)]
            /\ UNCHANGED refundRequests
       ELSE /\ refundRequests' = processRefundRequest(h.id, h.approved)
            /\ Finish(s)
    /\ UNCHANGED <<users, upsertError, deadlineBody>>
    /\ UNCHANGED <<projects, transactions, now, withdrawCount, deductCount>>

\* Math.max(0, currentAmount - deduct).toString()
refundedAmount(project, refund) ==
    toString(jsMax0(jsSub(parseFloat(OrZero(project.currentAmount)),
                          parseFloat(OrZero(refund.amount)))))

\* ... the deduction, computed from the project as it was read
ProcessUpdate(s) ==
    LET h == handlers[s] IN
    /\ h.op = "process" /\ h.pc = "gotProject"
    /\ IF h.project /= <<>>
       THEN /\ projects' = updateProjectAmount(h.refund[1].projectId,
                               refundedAmount(h.project[1], h.refund[1]))
            /\ deductCount' = [deductCount EXCEPT ![h.id] = Bump(@)]
            /\ handlers' = [handlers EXCEPT ![s].pc = "updatedAmount"]
            /\ UNCHANGED refundRequests
       ELSE /\ refundRequests' = processRefundRequest(h.id, h.approved)
            /\ Finish(s)
            /\ UNCHANGED <<projects, deductCount>>
    /\ UNCHANGED <<users, upsertError, deadlineBody>>
    /\ UNCHANGED <<transactions, now, withdrawCount>>

\* ... processRefundRequest and the response
ProcessMark(s) ==
    LET h == handlers[s] IN
    /\ h.op = "process" /\ h.pc = "updatedAmount"
    /\ refundRequests' = processRefundRequest(h.id, h.approved)
    /\ Finish(s)
    /\ UNCHANGED <<users, upsertError, deadlineBody>>
    /\ UNCHANGED <<projects, transactions, now, withdrawCount, deductCount>>

\* ... processRefundRequest throws after the deduction was written: the
\* catch block answers 500, the request stays as it was
ProcessFailureResponse == Res(500, "Failed to process refund request")

ProcessMarkThrows(s) ==
    LET h == handlers[s] IN
    /\ h.op = "process" /\ h.pc = "updatedAmount"
    /\ ProcessFailureResponse.status = 500
    /\ Finish(s)
    /\ UNCHANGED <<users, upsertError, deadlineBody>>
    /\ UNCHANGED <<projects, transactions, refundRequests, now, withdrawCount,
                   deductCount>>

\* storage.getAllProjects: the active projects (here in the order of their
\* ids; the query orders them by createdAt)
getAllProjects == SelectSeq(projects, LAMBDA project : project.isActive)

\* getTimeRemaining(deadline).isExpired: diff = deadlineTime - now; diff <= 0
isExpired(deadline) == deadline - now <= 0

\* canWithdraw of the creator's dashboard
canWithdraw(project) ==
    /\ ~project.withdrawn
    /\ jsGe(parseFloat(project.currentAmount), parseFloat(project.goalAmount))
    /\ ~isExpired(project.deadline)
    /\ project.isActive

\* The steps of the handlers running in the slots of S
NextOver(S) ==
    \/ Tick
    \/ \E s \in S :
        \/ \E c \in Creators, g \in GoalAmounts, d \in Deadlines, x \in ProjectExtras :
              CreateProject(s, c, g, d, x)
        \/ \E c \in Donors, p \in ProjectIds, a \in FundAmounts, t \in TransactionTypes :
              FundBegin(s, c, p, a, t)
        \/ FundCreate(s)
        \/ FundUpdate(s)
        \/ \E c \in Users, p \in ProjectIds : WithdrawBegin(s, c, p)
        \/ WithdrawMark(s)
        \/ \E c \in Donors, p \in ProjectIds, t \in RefundTransactionIds, a \in RefundAmounts :
              RefundRequestBegin(s, c, p, t, a)
        \/ RefundRequestCreate(s)
        \/ \E c \in Users, r \in RefundIds, a \in BOOLEAN : ProcessBegin(s, c, r, a)
        \/ ProcessGetProject(s)
        \/ ProcessUpdate(s)
        \/ ProcessMark(s)

\* Handlers may overlap.
Next == NextOver(Slots)

Spec == Init /\ [][Next]_vars

\* Non-overlapping calls: one handler at a time.
NextSeq == NextOver({"h1"})

SpecSeq == Init /\ [][NextSeq]_vars

\* Non-overlapping calls over a storage whose write of currentAmount may throw.
NextFaulty == NextSeq \/ FundUpdateThrows("h1")

SpecFaulty == Init /\ [][NextFaulty]_vars

\* Non-overlapping calls, every process call an approval, the refund
\* requests of the given amounts
Approvals(amounts) ==
    \/ Tick
    \/ \E c \in Creators, g \in GoalAmounts, d \in Deadlines, x \in ProjectExtras :
          CreateProject("h1", c, g, d, x)
    \/ \E c \in Donors, p \in ProjectIds, a \in FundAmounts, t \in TransactionTypes :
          FundBegin("h1", c, p, a, t)
    \/ FundCreate("h1")
    \/ FundUpdate("h1")
    \/ \E c \in Donors, p \in ProjectIds, t \in RefundTransactionIds, a \in amounts :
          RefundRequestBegin("h1", c, p, t, a)
    \/ RefundRequestCreate("h1")
    \/ \E c \in Users, r \in RefundIds : ProcessBegin("h1", c, r, TRUE)
    \/ ProcessGetProject("h1")
    \/ ProcessUpdate("h1")
    \/ ProcessMark("h1")

\* ... over a storage whose write of the approved flag may throw: the
\* creator retries.
NextRetry == Approvals(RefundAmounts) \/ ProcessMarkThrows("h1")

SpecRetry == Init /\ [][NextRetry]_vars

\* body.amount of a refund request, of either sign, zero or no number: the
\* endpoint stores amount.toString() of whatever it is given
AnyRefundAmounts == {<<"2">>, <<"0">>, <<"-", "2">>, <<"a", "b", "c">>}

NextAnyRefund == Approvals(AnyRefundAmounts)

SpecAnyRefund == Init /\ [][NextAnyRefund]_vars

-----------------------------------------------------------------------------
(* Amounts with a decimal place: IEEE 754 binary64 arithmetic, bit by bit.  *)
(* A double is [e, m]: m its 53 significand bits, the leading one first, of *)
(* value m[1].m[2]...m[53] * 2^e; zero is the double whose bits are all 0.  *)

Zeros(k) == [i \in 1..k |-> 0]

Zero64 == [e |-> 0, m |-> Zeros(53)]

isZero64(x) == x.m[1] = 0

RECURSIVE Pow2(_)
Pow2(k) == IF k = 0 THEN 1 ELSE 2 * Pow2(k - 1)

\* 2^k modulo den
RECURSIVE Pow2Mod(_, _)
Pow2Mod(k, den) == IF k = 0 THEN 1 % den ELSE (2 * Pow2Mod(k - 1, den)) % den

\* What is left of r / den, for r < den, after k bits of its binary expansion
FracRest(r, den, k) == (r * Pow2Mod(k, den)) % den

\* The first k bits of the binary expansion of r / den
FracBits(r, den, k) ==
    [i \in 1..k |-> IF 2 * FracRest(r, den, i - 1) >= den THEN 1 ELSE 0]

\* bits + 1, of the same length (all ones wrap to all zeros)
IncBits(b) ==
    IF \A i \in 1..Len(b) : b[i] = 1 THEN Zeros(Len(b))
    ELSE LET k == CHOOSE i \in 1..Len(b) :
                      b[i] = 0 /\ \A j \in (i + 1)..Len(b) : b[j] = 1
         IN  [i \in 1..Len(b) |-> IF i < k THEN b[i] ELSE IF i = k THEN 1 ELSE 0]

\* Round to nearest, ties to even: the significand m of exponent e, and
\* whether what was cut off is above half (up) or exactly half (tie)
Round64(e, m, up, tie) ==
    IF up \/ (tie /\ m[53] = 1)
    THEN IF IncBits(m)[1] = 0 THEN [e |-> e + 1, m |-> <<1>> \o Zeros(52)]
         ELSE [e |-> e, m |-> IncBits(m)]
    ELSE [e |-> e, m |-> m]

\* The double nearest to n / 10
TenthsToDouble(n) ==
    IF n = 0 THEN Zero64
    ELSE LET e   == CHOOSE k \in -4..8 :
                        IF k >= 0 THEN 10 * Pow2(k) <= n /\ n < 20 * Pow2(k)
                        ELSE 10 <= n * Pow2(0 - k) /\ n * Pow2(0 - k) < 20
             num == IF e >= 0 THEN n ELSE n * Pow2(0 - e)
             den == IF e >= 0 THEN 10 * Pow2(e) ELSE 10
             rest == FracRest(num - den, den, 52)
         IN  Round64(e, <<1>> \o FracBits(num - den, den, 52),
                     2 * rest > den, 2 * rest = den)

\* The carry into place i of the sum of two bit strings of one length
CarryInto(a, b, i) ==
    \E j \in (i + 1)..Len(a) :
        /\ a[j] = 1 /\ b[j] = 1
        /\ \A k \in (i + 1)..(j - 1) : a[k] + b[k] = 1

\* The sum of two bit strings of one length, one bit longer
AddBits(a, b) ==
    [i \in 1..(Len(a) + 1) |->
        IF i = 1 THEN (IF CarryInto(a, b, 0) THEN 1 ELSE 0)
        ELSE (a[i - 1] + b[i - 1] + (IF CarryInto(a, b, i - 1) THEN 1 ELSE 0)) % 2]

\* x + y of two doubles that are zero or positive
jsAdd64(x, y) ==
    IF isZero64(x) THEN y
    ELSE IF isZero64(y) THEN x
    ELSE LET hi    == IF x.e >= y.e THEN x ELSE y
             lo    == IF x.e >= y.e THEN y ELSE x
             shift == hi.e - lo.e
             sum   == AddBits(hi.m \o Zeros(shift), Zeros(shift) \o lo.m)
             from  == IF sum[1] = 1 THEN 1 ELSE 2
             cut   == SubSeq(sum, from + 53, Len(sum))
             up    == cut /= <<>> /\ cut[1] = 1
                      /\ \E i \in 2..Len(cut) : cut[i] = 1
             tie   == cut /= <<>> /\ cut[1] = 1
                      /\ \A i \in 2..Len(cut) : cut[i] = 0
         IN  Round64(IF sum[1] = 1 THEN hi.e + 1 ELSE hi.e,
                     SubSeq(sum, from, from + 52), up, tie)

\* The first place where two bit strings of one length differ, 0 if none
FirstDifference(a, b) ==
    IF a = b THEN 0 ELSE CHOOSE i \in 1..Len(a) :
        a[i] /= b[i] /\ \A j \in 1..(i - 1) : a[j] = b[j]

\* x >= y of two doubles that are zero or positive
jsGe64(x, y) ==
    IF isZero64(y) THEN TRUE
    ELSE IF isZero64(x) THEN FALSE
    ELSE IF x.e /= y.e THEN x.e > y.e
    ELSE x.m = y.m \/ x.m[FirstDifference(x.m, y.m)] = 1

\* The text of n / 10: "0.3", "1", "1.8"
TenthsToText(n) ==
    IF n % 10 = 0 THEN NatToString(n \div 10)
    ELSE NatToString(n \div 10) \o <<".">> \o NatToString(n % 10)

\* The tenths a text with at most one decimal place stands for
TextToTenths(s) ==
    IF \E i \in 1..Len(s) : s[i] = "."
    THEN LET i == CHOOSE j \in 1..Len(s) : s[j] = "."
         IN  10 * DigitsValue(SubSeq(s, 1, i - 1), 0)
                 + DigitValue(s[i + 1])
    ELSE 10 * DigitsValue(s, 0)

\* Number.prototype.toString of a double: the shortest decimal that reads
\* back as x.  When x is the double nearest to some n / 10, that decimal
\* is the text of n / 10.  Otherwise it has 16 or 17 digits, which are
\* not worked out here: the text is written by the bits of x instead,
\* "b", the 53 bits, "p", the exponent.
toString64(x) ==
    IF \E n \in 0..(20 * Pow2(IF x.e > 0 THEN x.e ELSE 0)) : TenthsToDouble(n) = x
    THEN TenthsToText(CHOOSE n \in 0..(20 * Pow2(IF x.e > 0 THEN x.e ELSE 0)) :
                          TenthsToDouble(n) = x)
    ELSE <<"b">> \o [i \in 1..53 |-> Digits[x.m[i] + 1]] \o <<"p">>
             \o toString(Num(x.e))

\* parseFloat of such a text
parseFloat64(s) ==
    IF Head(s) = "b"
    THEN [e |-> parseFloat(SubSeq(s, 56, Len(s))).v,
          m |-> [i \in 1..53 |-> DigitValue(s[i + 1])]]
    ELSE TenthsToDouble(TextToTenths(s))

\* POST /api/projects/:id/fund, from its first line to its response with
\* no other call in between, for an amount with a decimal place
FundDecimal(caller, projectId, amount, transactionType) ==
    LET amountNum == parseFloat64(amount)
        project   == getProject(projectId)
        currentAmount == parseFloat64(project[1].currentAmount)
        goalAmount    == parseFloat64(project[1].goalAmount)
    IN  /\ Len(transactions) < MaxDecimalFunds
        /\ transactionType \in {"real", "demo"}
        /\ ~isZero64(amountNum)
        /\ project /= <<>>
        /\ ~(now > project[1].deadline)
        /\ project[1].isActive
        /\ ~jsGe64(currentAmount, goalAmount)
        /\ transactions' = createTransaction(
                [projectId       |-> projectId,
                 donorId         |-> caller,
                 amount          |-> amount,
                 transactionType |-> transactionType])
        /\ projects' = updateProjectAmount(projectId,
                           toString64(jsAdd64(currentAmount, amountNum)))
        /\ UNCHANGED <<users, upsertError, deadlineBody>>
        /\ UNCHANGED <<refundRequests, now, handlers, withdrawCount, deductCount>>

\* Non-overlapping fund calls of amounts with a decimal place
NextDecimal ==
    \/ \E c \in Creators, g \in GoalAmounts, d \in Deadlines, x \in ProjectExtras :
          CreateProject("h1", c, g, d, x)
    \/ \E c \in Donors, p \in ProjectIds, a \in DecimalAmounts, t \in TransactionTypes :
          FundDecimal(c, p, a, t)

SpecDecimal == Init /\ [][NextDecimal]_vars

\* Logins and project creations, one call at a time
NextUsers ==
    \/ Tick
    \/ \E id \in UserIds, email \in Emails : UpsertUser(id, email)
    \/ \E c \in UserIds, g \in GoalAmounts, d \in Deadlines, x \in ProjectExtras :
          CreateProject("h1", c, g, d, x)

SpecUsers == Init /\ [][NextUsers]_vars

-----------------------------------------------------------------------------
(* The deadline of a new project, in the forms a request body may carry.   *)
(* A body value is [type, text]: a string with its characters, or a whole  *)
(* non-negative number with its decimal digits (unix milliseconds exceed   *)
(* the integers of the model checker, so numbers are calculated on their   *)
(* digits).                                                                *)

\* The instants the deadlines are taken from, as UTC calendar fields
Instants ==
    { [year |-> 1970, month |-> 1, day |-> 1, hour |-> 0, minute |-> 0,
       second |-> 1, ms |-> 0],
      [year |-> 2001, month |-> 9, day |-> 9, hour |-> 1, minute |-> 46,
       second |-> 39, ms |-> 999],
      [year |-> 2001, month |-> 9, day |-> 9, hour |-> 1, minute |-> 46,
       second |-> 40, ms |-> 0],
      [year |-> 2001, month |-> 9, day |-> 9, hour |-> 1, minute |-> 46,
       second |-> 40, ms |-> 1],
      [year |-> 2026, month |-> 2, day |-> 28, hour |-> 23, minute |-> 59,
       second |-> 59, ms |-> 0],
      [year |-> 2028, month |-> 3, day |-> 1, hour |-> 0, minute |-> 0,
       second |-> 0, ms |-> 500],
      [year |-> 2030, month |-> 12, day |-> 31, hour |-> 12, minute |-> 30,
       second |-> 0, ms |-> 0] }

\* The forms of a deadline in a request body
DeadlineForms == {"seconds", "ms", "secondsString", "msString", "iso"}

\* Days from 1970-01-01 to a date of the proleptic Gregorian calendar, as
\* Date.UTC counts them
DaysFromCivil(year, month, day) ==
    LET y   == IF month <= 2 THEN year - 1 ELSE year
        era == y \div 400
        yoe == y - era * 400
        mp  == IF month > 2 THEN month - 3 ELSE month + 9
        doy == (153 * mp + 2) \div 5 + day - 1
        doe == yoe * 365 + yoe \div 4 - yoe \div 100 + doy
    IN  era * 146097 + doe - 719468

\* Whole seconds from the epoch to an instant
epochSeconds(i) ==
    DaysFromCivil(i.year, i.month, i.day) * 86400
        + i.hour * 3600 + i.minute * 60 + i.second

\* n in decimal, at least w digits wide
Pad(n, w) ==
    LET t == NatToString(n)
    IN  [k \in 1..(w - Len(t)) |-> "0"] \o t

\* Decimal digits without leading zeros
RECURSIVE StripZeros(_)
StripZeros(s) ==
    IF Len(s) > 1 /\ Head(s) = "0" THEN StripZeros(Tail(s)) ELSE s

\* Date.prototype.getTime of an instant: milliseconds from the epoch
getTime(i) == StripZeros(NatToString(epochSeconds(i)) \o Pad(i.ms, 3))

\* Date.prototype.toISOString
toISOString(i) ==
    Pad(i.year, 4) \o <<"-">> \o Pad(i.month, 2) \o <<"-">> \o Pad(i.day, 2)
        \o <<"T">> \o Pad(i.hour, 2) \o <<":">> \o Pad(i.minute, 2)
        \o <<":">> \o Pad(i.second, 2) \o <<".">> \o Pad(i.ms, 3) \o <<"Z">>

\* /^\d+$/.test
isNumericString(s) == Len(s) >= 1 /\ \A k \in 1..Len(s) : IsDigit(s[k])

\* The text is a date-time in the form of toISOString
isISOString(s) ==
    /\ Len(s) = 24
    /\ s[5] = "-" /\ s[8] = "-" /\ s[11] = "T" /\ s[14] = ":" /\ s[17] = ":"
    /\ s[20] = "." /\ s[24] = "Z"
    /\ \A k \in (1..23) \ {5, 8, 11, 14, 17, 20} : IsDigit(s[k])

\* new Date(string) of such a text
DateOfString(s) ==
    [year   |-> DigitsValue(SubSeq(s, 1, 4), 0),
     month  |-> DigitsValue(SubSeq(s, 6, 7), 0),
     day    |-> DigitsValue(SubSeq(s, 9, 10), 0),
     hour   |-> DigitsValue(SubSeq(s, 12, 13), 0),
     minute |-> DigitsValue(SubSeq(s, 15, 16), 0),
     second |-> DigitsValue(SubSeq(s, 18, 19), 0),
     ms     |-> DigitsValue(SubSeq(s, 21, 23), 0)]

JsNumber(digits) == [type |-> "number", text |-> digits]

JsString(chars) == [type |-> "string", text |-> chars]

\* parseInt(s, 10) of a numeric string
parseInt(s) == JsNumber(StripZeros(s))

\* Math.floor(n / 1000)
floorDiv1000(n) ==
    IF Len(n) <= 3 THEN <<"0">> ELSE SubSeq(n, 1, Len(n) - 3)

\* n * 1000
times1000(n) == IF n = <<"0">> THEN n ELSE n \o <<"0", "0", "0">>

\* n > 1e12
gt1e12(n) ==
    \/ Len(n) > 13
    \/ Len(n) = 13 /\ n /= <<"1">> \o [k \in 1..12 |-> "0"]

\* The deadline of instant i in the given form
DeadlineBody(i, form) ==
    CASE form = "seconds"       -> JsNumber(NatToString(epochSeconds(i)))
      [] form = "ms"            -> JsNumber(getTime(i))
      [] form = "secondsString" -> JsString(NatToString(epochSeconds(i)))
      [] form = "msString"      -> JsString(getTime(i))
      [] form = "iso"           -> JsString(toISOString(i))

\* Request bodies whose deadline no branch converts
OtherDeadlines == {JsString(<<"s", "o", "o", "n">>)}

DeadlineBodies ==
    {DeadlineBody(i, form) : i \in Instants, form \in DeadlineForms}
        \cup OtherDeadlines

\* POST /api/projects: the coercion of req.body.deadline before the parse
coerceDeadline(deadline) ==
    IF deadline.type = "string" /\ isNumericString(deadline.text)
    THEN parseInt(deadline.text)
    ELSE IF deadline.type = "string" /\ isISOString(deadline.text)
    THEN JsNumber(floorDiv1000(getTime(DateOfString(deadline.text))))
    ELSE deadline

\* Mutant: the preprocess takes every number for seconds.
preprocessDeadlineAsSeconds(val) ==
    IF val.type = "string" /\ isNumericString(val.text)
    THEN parseInt(val.text)
    ELSE IF val.type = "string" /\ isISOString(val.text)
    THEN JsNumber(floorDiv1000(getTime(DateOfString(val.text))))
    ELSE val

\* insertProjectSchema.deadline: the z.preprocess function
preprocessDeadline(val) ==
    IF val.type = "string" /\ isNumericString(val.text)
    THEN parseInt(val.text)
    ELSE IF val.type = "string" /\ isISOString(val.text)
    THEN JsNumber(floorDiv1000(getTime(DateOfString(val.text))))
    ELSE IF val.type = "number"
    THEN IF gt1e12(val.text) THEN JsNumber(floorDiv1000(val.text)) ELSE val
    ELSE val

\* z.number().int().positive() of the preprocessed value
isPositiveInt(val) == val.type = "number" /\ val.text /= <<"0">>

\* The timestamp column as storage.createProject writes it: new
\* Date(deadline * 1000), stored by the column's mode as whole seconds
deadlineColumn(deadline) == floorDiv1000(times1000(deadline))

\* POST /api/projects with the deadline as the body carries it
CreateProjectDated(s, caller, goalAmount, deadline) ==
    LET validatedData == preprocessDeadline(coerceDeadline(deadline))
    IN  /\ handlers[s].op = "idle"
        /\ Len(projects) < MaxProjects
        /\ Len(goalAmount) >= 1
        /\ isPositiveInt(validatedData)
        /\ getUser(caller) /= <<>>
        /\ projects' = createProject(
                           [creatorId     |-> caller,
                            goalAmount    |-> goalAmount,
                            deadline      |-> deadlineColumn(validatedData.text),
                            currentAmount |-> <<>>,
                            isActive      |-> <<>>,
                            withdrawn     |-> <<>>])
        /\ deadlineBody' = [deadlineBody EXCEPT ![Len(projects) + 1] = deadline]
        /\ UNCHANGED <<users, upsertError, transactions, refundRequests, now,
                       handlers, withdrawCount, deductCount>>

\* Project creations with deadlines in every form, one call at a time
NextDeadline ==
    \/ Tick
    \/ \E c \in Users, g \in GoalAmounts, d \in DeadlineBodies :
          CreateProjectDated("h1", c, g, d)

SpecDeadline == Init /\ [][NextDeadline]_vars

-----------------------------------------------------------------------------
(* Properties *)

AllIdle == \A s \in Slots : handlers[s].op = "idle"

RECURSIVE SumAmounts(_)
SumAmounts(rows) ==
    IF rows = <<>> THEN Num(0)
    ELSE jsAdd(parseFloat(Head(rows).amount), SumAmounts(Tail(rows)))

\* The contributions recorded for project p
Contributions(p) ==
    SumAmounts(SelectSeq(transactions, LAMBDA t : t.projectId = p))

\* The approved refund requests of project p
ApprovedRefunds(p) ==
    SumAmounts(SelectSeq(refundRequests, LAMBDA r : r.projectId = p /\ r.approved))

Balance(p) == parseFloat(projects[p].currentAmount)

\* Every refund request asks for a number, and its amount was deducted
\* once if it is approved and never if it is not.
RefundsSettledOnce ==
    \A r \in 1..Len(refundRequests) :
        /\ ~isNaN(parseFloat(refundRequests[r].amount))
        /\ deductCount[r] = IF refundRequests[r].approved THEN 1 ELSE 0

\* C1: whenever no call is in flight (calls do not overlap) and the refund
\* requests were settled once each, every project's currentAmount is
\* max(0, contributions - approved refunds).
C1_LedgerBalance ==
    (AllIdle /\ RefundsSettledOnce) =>
        \A p \in 1..Len(projects) :
            Balance(p) = jsMax0(jsSub(Contributions(p), ApprovedRefunds(p)))

\* C2: once N overlapping fund calls of one amount a on a project with no
\* refund request have all ended, currentAmount is N * a.
C2_NoLostContribution ==
    (AllIdle /\ refundRequests = <<>>) =>
        \A p \in 1..Len(projects) :
            LET txs == SelectSeq(transactions, LAMBDA t : t.projectId = p) IN
            \A a \in FundAmounts :
                (\A i \in 1..Len(txs) : txs[i].amount = a)
                    => Balance(p) = Num(Len(txs) * parseFloat(a).v)

\* A withdraw handler of the project's creator, after a withdraw succeeded
LaterWithdraw(s) ==
    /\ handlers[s].op = "withdraw"
    /\ handlers[s].id \in 1..Len(projects)
    /\ handlers[s].caller = projects[handlers[s].id].creatorId
    /\ withdrawCount[handlers[s].id] >= 1

\* C3: with non-overlapping calls, withdraw succeeds at most once per
\* project; after a success every withdraw call of the creator is answered
\* 400 "Funds already withdrawn" and leaves the projects as they are.
C3_WithdrawOnce ==
    /\ [](\A p \in ProjectIds : withdrawCount[p] <= 1)
    /\ [](\A s \in Slots : LaterWithdraw(s) =>
              WithdrawResponse(handlers[s]) = Res(400, "Funds already withdrawn"))
    /\ [][(\E s \in Slots : LaterWithdraw(s)) => projects' = projects]_vars

C3_Witness ==
    \E s \in Slots : LaterWithdraw(s) /\ projects[handlers[s].id].withdrawn

\* C4: of the withdraw calls for one project, overlapping or not, at most
\* one is answered with success.
C4_NoDoubleWithdraw == \A p \in ProjectIds : withdrawCount[p] < 2

\* An approve handler of the request's creator
CreatorApprove(s) ==
    /\ handlers[s].op = "process"
    /\ handlers[s].approved
    /\ handlers[s].id \in 1..Len(refundRequests)
    /\ handlers[s].caller = refundRequests[handlers[s].id].creatorId

\* C5: with non-overlapping calls, an approve call of the creator on a
\* pending request writes max(0, currentAmount - amount) once, and an
\* approve call of the creator on a request that is already approved (the
\* second of two in succession) changes no balance.
C5_ApproveTwiceDeductsOnce ==
    [][\A s \in Slots : CreatorApprove(s) =>
          LET h == handlers[s]
              r == refundRequests[h.id]
          IN  IF r.approved
              THEN projects' = projects /\ deductCount' = deductCount
              ELSE /\ h.pc = "gotRefund" => handlers'[s].pc \in {"gotRefund", "gotProject"}
                   /\ h.pc = "gotProject" /\ handlers'[s].pc = "updatedAmount" =>
                         /\ projects' = updateProjectAmount(r.projectId,
                                            refundedAmount(projects[r.projectId], r))
                         /\ deductCount'[h.id] = Bump(deductCount[h.id])
                   /\ h.pc = "updatedAmount" => projects' = projects
      ]_vars

\* The creator's second approve call in succession: the request is approved
\* and its amount was deducted by the first.
C5_Witness ==
    \E s \in Slots :
        /\ CreatorApprove(s)
        /\ refundRequests[handlers[s].id].approved
        /\ deductCount[handlers[s].id] = 1
        /\ Balance(refundRequests[handlers[s].id].projectId) = Num(1)

\* The larger of two balances
LargerAmount(x, y) == IF jsLt(parseFloat(x), parseFloat(y)) THEN y ELSE x

\* C6: when two overlapping approve calls for one request have both written
\* their deduction, currentAmount is the balance read before either wrote,
\* less the amount, once.
C6_ConcurrentApproveOnce ==
    \A s1, s2 \in Slots :
        (/\ s1 # s2
         /\ handlers[s1].op = "process" /\ handlers[s2].op = "process"
         /\ handlers[s1].id = handlers[s2].id
         /\ handlers[s1].pc = "updatedAmount" /\ handlers[s2].pc = "updatedAmount")
        => LET r == handlers[s1].refund[1]
               before == LargerAmount(handlers[s1].project[1].currentAmount,
                                      handlers[s2].project[1].currentAmount)
           IN  projects[r.projectId].currentAmount =
                   refundedAmount([currentAmount |-> before], r)

\* A process handler of a caller who is not the request's creator
StrangerProcess(s) ==
    /\ handlers[s].op = "process"
    /\ handlers[s].id \in 1..Len(refundRequests)
    /\ handlers[s].caller # refundRequests[handlers[s].id].creatorId

\* C7: with non-overlapping calls, a process call of a caller who is not the
\* request's creator changes neither a request nor a project.
C7_StrangerChangesNothing ==
    [][(\E s \in Slots : StrangerProcess(s))
          => refundRequests' = refundRequests /\ projects' = projects]_vars

\* C8: a refund request that is approved stays approved.
C8_ApprovedLatch ==
    [][\A r \in 1..Len(refundRequests) :
          refundRequests[r].approved => refundRequests'[r].approved]_vars

\* C9: a project that is withdrawn stays withdrawn, whatever runs later.
C9_WithdrawnLatch ==
    [][\A p \in 1..Len(projects) :
          projects[p].withdrawn => projects'[p].withdrawn]_vars

\* A withdrawn project whose currentAmount a later call has written
C9_Witness ==
    \E s \in Slots :
        /\ handlers[s].op = "process" /\ handlers[s].pc = "updatedAmount"
        /\ handlers[s].project[1].withdrawn
        /\ projects[handlers[s].project[1].id].withdrawn

\* C10: every project's currentAmount is a number >= 0.
C10_NonNegative ==
    \A p \in 1..Len(projects) : jsGe(Balance(p), Num(0))

\* A process handler whose id names no refund request
MissingProcess(s) ==
    /\ handlers[s].op = "process"
    /\ handlers[s].id \notin 1..Len(refundRequests)

\* C11: with non-overlapping calls, a process call whose id names no refund
\* request is answered 404, and changes neither a request nor a project.
C11_MissingRefundNotFound ==
    /\ [](\A s \in Slots : MissingProcess(s) =>
              ProcessResponse(handlers[s]).status = 404)
    /\ [][(\E s \in Slots : MissingProcess(s))
              => refundRequests' = refundRequests /\ projects' = projects]_vars

\* C12: whenever no call is in flight, the contributions recorded for a
\* project with no refund request add up to its currentAmount, also after a
\* fund call whose write of currentAmount failed.
C12_FailedFundLeavesNoTransaction ==
    (AllIdle /\ refundRequests = <<>>) =>
        \A p \in 1..Len(projects) : Balance(p) = Contributions(p)

\* A fund handler about to check the project it read, and its next step
FundAtCheck(s) ==
    /\ handlers[s].op = "fund" /\ handlers[s].pc = "gotProject"
    /\ handlers[s].id \in 1..Len(projects)

Steps(s) == handlers'[s] /= handlers[s]

\* The row a fund handler's call adds to the ledger
IsTransactionOf(t, h) ==
    /\ t.projectId = h.id /\ t.donorId = h.caller
    /\ t.amount = h.amount /\ t.transactionType = h.transactionType

GoalReached(p) ==
    jsGe(parseFloat(projects[p].currentAmount), parseFloat(projects[p].goalAmount))

\* C13: with non-overlapping calls, a fund call that checks the deadline
\* when now > deadline is answered 400 "Project deadline has passed" and
\* writes neither a Transaction nor a currentAmount; one that checks it when
\* now = deadline, on an active project short of its goal, records its
\* Transaction.
C13_DeadlineInclusive ==
    [][\A s \in Slots : (FundAtCheck(s) /\ Steps(s)) =>
          LET h == handlers[s]
              p == h.id
          IN  /\ now > projects[p].deadline =>
                    /\ FundResponse(h) = Res(400, "Project deadline has passed")
                    /\ handlers'[s] = Idle
                    /\ transactions' = transactions
                    /\ projects' = projects
              /\ (now = projects[p].deadline /\ projects[p].isActive /\ ~GoalReached(p)) =>
                    /\ handlers'[s].pc = "createdTransaction"
                    /\ Len(transactions') = Len(transactions) + 1
                    /\ IsTransactionOf(transactions'[Len(transactions')], h)
      ]_vars

\* A fund call accepted at the deadline
C13_Witness ==
    \E s \in Slots :
        /\ handlers[s].op = "fund" /\ handlers[s].pc = "createdTransaction"
        /\ now = handlers[s].project[1].deadline
        /\ IsTransactionOf(transactions[Len(transactions)], handlers[s])

\* A text that is a positive decimal: digits only (no amount of the model
\* has a fraction), of a value above zero
IsPositiveDecimal(s) ==
    /\ s /= <<>>
    /\ \A i \in 1..Len(s) : IsDigit(s[i])
    /\ DigitsValue(s, 0) > 0

ValidFund(amount, transactionType) ==
    IsPositiveDecimal(amount) /\ transactionType \in {"real", "demo"}

\* C14: a fund call whose amount is not a positive decimal, or whose
\* transactionType is neither real nor demo, is turned away by the checks
\* of the body: no handler gets past them with such a body, and no
\* Transaction records one.
C14_InvalidFundRejected ==
    /\ \A s \in Slots : handlers[s].op = "fund" =>
          ValidFund(handlers[s].amount, handlers[s].transactionType)
    /\ \A i \in 1..Len(transactions) :
          ValidFund(transactions[i].amount, transactions[i].transactionType)

\* A withdraw handler about to check the project it read
WithdrawAtCheck(s) ==
    /\ handlers[s].op = "withdraw" /\ handlers[s].pc = "gotProject"
    /\ handlers[s].id \in 1..Len(projects)

\* The answer the preconditions of withdraw give, in their order, for
\* project p as it is now
WithdrawExpected(caller, p) ==
    IF caller /= projects[p].creatorId
    THEN Res(403, "Only the project creator can withdraw funds")
    ELSE IF projects[p].withdrawn THEN Res(400, "Funds already withdrawn")
    ELSE IF ~GoalReached(p) THEN Res(400, "Funding goal not met")
    ELSE IF ~(now <= projects[p].deadline)
    THEN Res(400, "Cannot withdraw after deadline")
    ELSE Res(200, "Funds withdrawn successfully")

\* C15: with non-overlapping calls, withdraw answers with the first violated
\* precondition in the order creator, not withdrawn, currentAmount >=
\* goalAmount, now <= deadline, and leaves the projects as they are; it sets
\* withdrawn, and only withdrawn, when all four hold.
C15_WithdrawPreconditions ==
    [][\A s \in Slots : (WithdrawAtCheck(s) /\ Steps(s)) =>
          LET h == handlers[s]
              expected == WithdrawExpected(h.caller, h.id)
          IN  /\ WithdrawResponse(h) = expected
              /\ projects' = IF expected.status = 200
                             THEN markProjectWithdrawn(h.id) ELSE projects
      ]_vars

\* C16: with non-overlapping calls, a fund call on a project whose
\* currentAmount >= goalAmount is answered 400, and the variants of the fund
\* handler answer every call alike.
C16_GoalMetPolicyUniform ==
    \A s \in Slots : FundAtCheck(s) =>
        /\ GoalReached(handlers[s].id) => FundResponse(handlers[s]).status = 400
        /\ FundResponse(handlers[s]) = FundResponseEarlier(handlers[s])

\* A refund-request handler about to create its row
RefundAtCreate(s) ==
    handlers[s].op = "refundRequest" /\ handlers[s].pc = "gotProject"

\* The step adds the request of handler h, pending, under the creator of
\* its project, and writes no project
CreatesRequestOf(h) ==
    /\ Len(refundRequests') = Len(refundRequests) + 1
    /\ SubSeq(refundRequests', 1, Len(refundRequests)) = refundRequests
    /\ LET r == refundRequests'[Len(refundRequests')]
       IN  /\ r.approved = FALSE
           /\ r.creatorId = projects[h.id].creatorId
           /\ r.projectId = h.id /\ r.donorId = h.caller /\ r.amount = h.amount
    /\ projects' = projects

C18_NewProjectDefaults ==
    [][Len(projects') > Len(projects) =>
          /\ Len(projects') = Len(projects) + 1
          /\ LET p == projects'[Len(projects')]
             IN  p.currentAmount = <<"0">> /\ p.isActive /\ ~p.withdrawn
      ]_vars

\* A project as POST /api/projects left it
C18_Witness ==
    /\ AllIdle /\ transactions = <<>> /\ refundRequests = <<>>
    /\ \E p \in 1..Len(projects) :
          /\ projects[p].currentAmount = <<"0">>
          /\ projects[p].isActive /\ ~projects[p].withdrawn

\* The exact sum of the amounts recorded for project p, in tenths
RECURSIVE SumTenths(_)
SumTenths(rows) ==
    IF rows = <<>> THEN 0
    ELSE TextToTenths(Head(rows).amount) + SumTenths(Tail(rows))

\* C19: after any sequence of accepted contributions with a decimal place,
\* the stored currentAmount is the text of their exact decimal sum.
C19_ExactDecimalSum ==
    \A p \in 1..Len(projects) :
        projects[p].currentAmount =
            TenthsToText(SumTenths(SelectSeq(transactions, LAMBDA t : t.projectId = p)))

\* C20: for every project, at every time (now = deadline included),
\* canWithdraw is true exactly when the project is not withdrawn,
\* currentAmount >= goalAmount, now <= deadline and the project is active.
C20_CanWithdraw ==
    \A p \in 1..Len(projects) :
        canWithdraw(projects[p]) <=>
            /\ ~projects[p].withdrawn
            /\ GoalReached(p)
            /\ now <= projects[p].deadline
            /\ projects[p].isActive

\* C21: a step that takes a request from approved to not approved (a
\* process call with approved = false) writes no project and deducts
\* nothing, and leaves the requests as one more such call leaves them; on a
\* pending request the call changes nothing at all.
C21_RejectChangesNoBalance ==
    [][\A r \in 1..Len(refundRequests) :
          (refundRequests[r].approved /\ ~refundRequests'[r].approved) =>
              /\ projects' = projects
              /\ deductCount' = deductCount
              /\ refundRequests' = processRefundRequest(r, FALSE)
              /\ processRefundRequest(r, FALSE)' = refundRequests'
      ]_vars

\* A request that was approved, with its amount deducted, and then rejected
C21_Witness ==
    /\ AllIdle
    /\ \E r \in 1..Len(refundRequests) :
          ~refundRequests[r].approved /\ deductCount[r] = 1

\* The e-mail column is UNIQUE: no two rows hold the same address
UniqueEmails ==
    \A u, v \in 1..Len(users) :
        (u /= v /\ users[u].email /= NoEmail) => users[u].email /= users[v].email

\* C22: after any sequence of upserts no two users share an e-mail address,
\* and no upsert fails with a constraint violation, whether or not the user
\* matched by e-mail is the creator of a project.
C22_UpsertNeverViolatesConstraint == UniqueEmails /\ upsertError = ""

\* C29: no step rewrites the id of a user row, and every project's
\* creatorId and every transaction's donorId is the id of a user row.
C29_UserIdsStable ==
    /\ [](/\ \A p \in 1..Len(projects) : getUser(projects[p].creatorId) /= <<>>
          /\ \A t \in 1..Len(transactions) : getUser(transactions[t].donorId) /= <<>>)
    /\ [][\A u \in 1..Len(users) : users'[u].id = users[u].id]_vars

\* Unix milliseconds above 1e12: instants after 2001-09-09T01:46:40.000Z
IsLate(i) == gt1e12(getTime(i))

C24_DeductedAtMostOnce == \A r \in RefundIds : deductCount[r] <= 1

\* C25: once the deduction of a refund request was written, no later step
\* writes it again: if an approval fails between the write of currentAmount
\* and the write of approved, its retry deducts nothing.
C25_RetryDeductsNothing ==
    [][\A r \in RefundIds :
          deductCount[r] >= 1 => deductCount'[r] = deductCount[r]]_vars

\* C26: a withdrawn project holds at least its goal, and no step changes
\* the currentAmount of a withdrawn project.
C26_WithdrawnAmountFrozen ==
    /\ [](\A p \in 1..Len(projects) :
             projects[p].withdrawn =>
                 jsGe(parseFloat(projects[p].currentAmount),
                      parseFloat(projects[p].goalAmount)))
    /\ [][\A p \in 1..Len(projects) :
             projects[p].withdrawn =>
                 projects'[p].currentAmount = projects[p].currentAmount]_vars

\* C27: the step that writes the deduction of an approved refund request
\* leaves no project with a greater currentAmount than it had, whatever the
\* request's amount.
C27_ApprovalNeverIncreases ==
    [][deductCount' /= deductCount =>
          \A p \in 1..Len(projects) :
              ~jsLt(parseFloat(projects[p].currentAmount),
                    parseFloat(projects'[p].currentAmount))]_vars

\* The sum of the amounts of the approved refund requests linked to
\* transaction t
RECURSIVE ApprovedRefundsOf(_, _)
ApprovedRefundsOf(t, n) ==
    IF n = 0 THEN Num(0)
    ELSE IF refundRequests[n].approved /\ refundRequests[n].transactionId = t
    THEN jsAdd(ApprovedRefundsOf(t, n - 1), parseFloat(refundRequests[n].amount))
    ELSE ApprovedRefundsOf(t, n - 1)

\* C28: for every transaction, the approved refund requests linked to it
\* sum to no more than the transaction's amount.
C28_RefundsWithinTransaction ==
    \A t \in 1..Len(transactions) :
        ~jsLt(parseFloat(transactions[t].amount),
              ApprovedRefundsOf(t, Len(refundRequests)))

\* C30: every project is active, no fund handler answers 'Project is not
\* active', and GET /api/projects lists every project.
C30_AlwaysActive ==
    /\ \A p \in 1..Len(projects) : projects[p].isActive
    /\ \A s \in Slots :
          handlers[s].op = "fund" =>
              FundResponse(handlers[s]).message /= "Project is not active"
    /\ \A p \in 1..Len(projects) :
          \E k \in 1..Len(getAllProjects) : getAllProjects[k] = projects[p]

\* A project that was funded and withdrawn, read by a fund handler that is
\* about to check it
C30_Witness ==
    \E s \in Slots :
        /\ FundAtCheck(s)
        /\ handlers[s].project /= <<>>
        /\ handlers[s].project[1].withdrawn
        /\ handlers[s].project[1].currentAmount /= <<"0">>
        /\ handlers[s].project[1].isActive
        /\ Len(getAllProjects) = Len(projects)

====
